---- MODULE Spec2Model ----
(***************************************************************************)
(* A model of the certificate verification service:                        *)
(*   final1.py       extract_fields, save_to_csv, generate_ssim_heatmap    *)
(*   ocr_service.py  generate_ssim_heatmap, extract_fields,                *)
(*                   process_certificate                                   *)
(*   ocr_routes.py   verify_certificate, get_heatmap                       *)
(*                                                                         *)
(* Texts are TLA+ strings; TLC's Len, SubSeq, Tail and \o act on them, so  *)
(* the character-level operations of the code (strip, split, lower, `in`,  *)
(* re.search, re.sub) are computed character by character.                 *)
(***************************************************************************)
EXTENDS Integers, Sequences, FiniteSets, TLC

VARIABLES
    ocrIn,      \* extract_fields: READER, the image path, the text locator's answer
    ocrOut,     \* extract_fields: what the call returned
    fs,         \* the files under static/: path -> content, or Absent
    heatmapDir, \* whether the directory static/heatmaps exists
    reference,  \* the file at REFERENCE_IMAGE_PATH
    req,        \* the verify requests: position, locals and response of each
    touched,    \* per request, the paths it has read, written and deleted
    csvFile,    \* the tabular log: whether it exists, and its rows
    saver,      \* the save_to_csv calls: position and locals of each caller
    saved,      \* the records of the calls that have returned, in order
    ssimIn,     \* the raw similarity field ssim() returned
    surface     \* the field after normalisation and inversion

vars == <<ocrIn, ocrOut, fs, heatmapDir, reference, req, touched,
          csvFile, saver, saved, ssimIn, surface>>
ocrVars == <<ocrIn, ocrOut>>
reqVars == <<fs, heatmapDir, reference, req, touched>>
csvVars == <<csvFile, saver, saved>>
normVars == <<ssimIn, surface>>

\* no save_to_csv call is in progress and there is no log
CsvQuiet ==
    /\ csvFile = [exists |-> FALSE, rows |-> <<>>]
    /\ saver = <<>>
    /\ saved = <<>>

\* no heatmap is being computed
NormQuiet ==
    /\ ssimIn = <<>>
    /\ surface = <<>>

(***************************************************************************)
(* Characters and the str methods the code uses.                           *)
(***************************************************************************)
Char(s, i) == SubSeq(s, i, i)

UpperCase == "ABCDEFGHIJKLMNOPQRSTUVWXYZ"
LowerCase == "abcdefghijklmnopqrstuvwxyz"
DigitChars == "0123456789"

CharsOf(s) == {Char(s, i) : i \in 1..Len(s)}

\* Python's str whitespace, as far as it can occur in a model text
WhiteSpace == {" ", "\t", "\n", "\r"}

ToLower == [c \in CharsOf(UpperCase) |->
              Char(LowerCase, CHOOSE i \in 1..Len(UpperCase) : Char(UpperCase, i) = c)]

LowerChar(c) == IF c \in DOMAIN ToLower THEN ToLower[c] ELSE c

RECURSIVE Lower(_)
\* str.lower(): every character lowered, the two halves of the text in turn
Lower(s) ==
    IF Len(s) = 0 THEN ""
    ELSE IF Len(s) = 1 THEN LowerChar(s)
    ELSE Lower(SubSeq(s, 1, Len(s) \div 2)) \o Lower(SubSeq(s, Len(s) \div 2 + 1, Len(s)))

\* `sub in s`
Contains(sub, s) ==
    \E i \in 0..(Len(s) - Len(sub)) : SubSeq(s, i + 1, i + Len(sub)) = sub

SetMin(S) == CHOOSE x \in S : \A y \in S : x <= y
SetMax(S) == CHOOSE x \in S : \A y \in S : x >= y

\* str.strip(): from the first to the last character that is not whitespace
Strip(s) ==
    IF \A i \in 1..Len(s) : Char(s, i) \in WhiteSpace THEN ""
    ELSE LET first == CHOOSE i \in 1..Len(s) :
                         /\ Char(s, i) \notin WhiteSpace
                         /\ \A j \in 1..(i - 1) : Char(s, j) \in WhiteSpace
             last == CHOOSE i \in 1..Len(s) :
                         /\ Char(s, i) \notin WhiteSpace
                         /\ \A j \in (i + 1)..Len(s) : Char(s, j) \in WhiteSpace
         IN SubSeq(s, first, last)

\* len(s.split()): the number of maximal runs of non-whitespace characters
WordCount(s) ==
    Cardinality({i \in 1..Len(s) :
        /\ Char(s, i) \notin WhiteSpace
        /\ (i = 1 \/ Char(s, i - 1) \in WhiteSpace)})

RECURSIVE JoinSpace(_)
\* " ".join(parts)
JoinSpace(parts) ==
    IF parts = <<>> THEN ""
    ELSE IF Len(parts) = 1 THEN parts[1]
    ELSE parts[1] \o " " \o JoinSpace(Tail(parts))

(***************************************************************************)
(* re.search / re.sub with re.IGNORECASE, for the constructs the patterns  *)
(* of extract_fields use: literals, one-character classes, greedy and lazy *)
(* repetition of a class, alternation and capture groups.  A pattern is a  *)
(* sequence of items; a match is tried on the lower-cased text, with the   *)
(* pattern's literals in lower case, in the backtracking order of Python's *)
(* re (an alternative or a repetition count is given up only when the rest *)
(* of the pattern fails after it).  Positions count the characters         *)
(* consumed, from 0.                                                       *)
(***************************************************************************)
Lit(s) == [t |-> "lit", s |-> s]
Rep(cls, min, greedy) == [t |-> "rep", cls |-> cls, min |-> min, greedy |-> greedy]
One(cls) == [t |-> "one", cls |-> cls]
Alt(alts) == [t |-> "alt", alts |-> alts]
Open(g) == [t |-> "open", g |-> g]
Close(g) == [t |-> "close", g |-> g]

InClass(cls, c) ==
    CASE cls = "s" -> c \in WhiteSpace                       \* \s
      [] cls = "S" -> c \notin WhiteSpace                    \* \S
      [] cls = "colon_s" -> c = ":" \/ c \in WhiteSpace      \* [:\s]
      [] cls = "dash_s_colon" -> c \in {"-", ":"} \/ c \in WhiteSpace  \* [-\s:]
      [] cls = "any" -> TRUE                                 \* . under re.DOTALL
      [] cls = "alnum_s" ->                                  \* [A-Z0-9\s], case ignored
            c \in CharsOf(LowerCase) \/ c \in CharsOf(DigitChars) \/ c \in WhiteSpace

\* how many characters of the class follow position pos
RunLen(cls, text, pos) ==
    CHOOSE k \in 0..(Len(text) - pos) :
        /\ (pos + k = Len(text) \/ ~InClass(cls, Char(text, pos + k + 1)))
        /\ \A j \in 1..k : InClass(cls, Char(text, pos + j))

NoMatch == [ok |-> FALSE]
NoCaps == <<<<0, 0>>, <<0, 0>>>>

RECURSIVE MatchItems(_, _, _, _)
RECURSIVE TryGreedy(_, _, _, _, _, _)
RECURSIVE TryLazy(_, _, _, _, _, _)
RECURSIVE TryAlts(_, _, _, _, _, _)

MatchItems(items, text, pos, caps) ==
    IF items = <<>> THEN [ok |-> TRUE, end |-> pos, caps |-> caps]
    ELSE LET it == Head(items)
             rest == Tail(items)
         IN CASE it.t = "lit" ->
                   IF /\ pos + Len(it.s) <= Len(text)
                      /\ SubSeq(text, pos + 1, pos + Len(it.s)) = it.s
                   THEN MatchItems(rest, text, pos + Len(it.s), caps)
                   ELSE NoMatch
              [] it.t = "one" ->
                   IF pos < Len(text) /\ InClass(it.cls, Char(text, pos + 1))
                   THEN MatchItems(rest, text, pos + 1, caps)
                   ELSE NoMatch
              [] it.t = "rep" ->
                   LET n == RunLen(it.cls, text, pos)
                   IN IF n < it.min THEN NoMatch
                      ELSE IF it.greedy
                      THEN TryGreedy(n, it.min, rest, text, pos, caps)
                      ELSE TryLazy(it.min, n, rest, text, pos, caps)
              [] it.t = "alt" -> TryAlts(it.alts, 1, rest, text, pos, caps)
              [] it.t = "open" ->
                   MatchItems(rest, text, pos, [caps EXCEPT ![it.g] = <<pos, pos>>])
              [] it.t = "close" ->
                   MatchItems(rest, text, pos, [caps EXCEPT ![it.g][2] = pos])

\* a greedy repetition consuming k characters: the largest k >= min after which
\* the rest of the pattern matches
TryGreedy(k, min, rest, text, pos, caps) ==
    LET m == MatchItems(rest, text, pos + k, caps)
    IN IF m.ok THEN m
       ELSE IF k = min THEN NoMatch
       ELSE TryGreedy(k - 1, min, rest, text, pos, caps)

\* a lazy repetition: the smallest k in min..n after which the rest matches
TryLazy(min, n, rest, text, pos, caps) ==
    IF \A k \in min..n : ~MatchItems(rest, text, pos + k, caps).ok THEN NoMatch
    ELSE MatchItems(rest, text,
                    pos + (CHOOSE k \in min..n :
                             /\ MatchItems(rest, text, pos + k, caps).ok
                             /\ \A j \in min..(k - 1) :
                                    ~MatchItems(rest, text, pos + j, caps).ok),
                    caps)

\* the alternatives in the order written
TryAlts(alts, j, rest, text, pos, caps) ==
    IF j > Len(alts) THEN NoMatch
    ELSE LET m == MatchItems(alts[j] \o rest, text, pos, caps)
         IN IF m.ok THEN m ELSE TryAlts(alts, j + 1, rest, text, pos, caps)

\* the leftmost position of low at which the pattern matches
SearchLow(items, low) ==
    LET hits == {p \in 0..Len(low) : MatchItems(items, low, p, NoCaps).ok}
    IN IF hits = {} THEN NoMatch
       ELSE LET m == MatchItems(items, low, SetMin(hits), NoCaps)
            IN [ok |-> TRUE, start |-> SetMin(hits), end |-> m.end, caps |-> m.caps]

\* re.search(pattern, text, re.IGNORECASE): the leftmost match
Search(items, text) == SearchLow(items, Lower(text))

\* match.group(g) of a match found in text
Group(m, g, text) == SubSeq(text, m.caps[g][1] + 1, m.caps[g][2])

RECURSIVE RemoveFrom(_, _, _, _)
RemoveFrom(items, text, low, p) ==
    IF p >= Len(text) THEN ""
    ELSE LET m == MatchItems(items, low, p, NoCaps)
         IN IF m.ok /\ m.end > p THEN RemoveFrom(items, text, low, m.end)
            ELSE Char(text, p + 1) \o RemoveFrom(items, text, low, p + 1)

\* re.sub(pattern, '', text, flags=re.IGNORECASE)
RemoveAll(items, text) == RemoveFrom(items, text, Lower(text), 0)

(***************************************************************************)
(* final1.extract_fields                                                   *)
(***************************************************************************)
Sentinel == "N/A"

FieldNames == {"University Name", "Certificate Holder Name", "Course", "Grade",
               "Roll No", "Certificate ID"}

\* extracted_data as first built: every field the sentinel
NoFields == [f \in FieldNames |-> Sentinel]

RECURSIVE TextLines(_)
\* [text.strip() for (bbox, text, conf) in results if text.strip()]
TextLines(results) ==
    IF results = <<>> THEN <<>>
    ELSE IF Strip(Head(results)) # ""
         THEN <<Strip(Head(results))>> \o TextLines(Tail(results))
         ELSE TextLines(Tail(results))

\* " ".join([text.strip() for ... if text.strip()])
AllText(results) == JoinSpace(TextLines(results))

\* 'Institute' in line or 'University' in line or 'Technology' in line
HasUniKeyword(line) ==
    Contains("Institute", line) \/ Contains("University", line)
        \/ Contains("Technology", line)

RECURSIVE UniStartFrom(_, _)
\* the first loop: uni_start_idx, an index from 0, or -1
UniStartFrom(text_lines, i) ==
    IF i >= Len(text_lines) THEN -1
    ELSE IF HasUniKeyword(text_lines[i + 1]) THEN i
    ELSE UniStartFrom(text_lines, i + 1)

UniStartIdx(text_lines) == UniStartFrom(text_lines, 0)

\* the test of the continuation loop, on next_line = text_lines[i].strip()
IsContinuation(next_line) ==
    /\ WordCount(next_line) <= 4
    /\ (Contains("of", Lower(next_line)) \/ Contains("technology", Lower(next_line)))

Min(a, b) == IF a <= b THEN a ELSE b

ContinuationStopWide(uni_start_idx, n) == Min(uni_start_idx + 4, n)

\* the end of range(uni_end_idx, min(uni_start_idx + 3, len(text_lines)))
ContinuationStop(uni_start_idx, n) == Min(uni_start_idx + 3, n)

RECURSIVE UniEndFrom(_, _, _)
\* the continuation loop: uni_end_idx when the loop ends, by break or exhaustion
UniEndFrom(text_lines, i, stop) ==
    IF i >= stop THEN i
    ELSE IF IsContinuation(Strip(text_lines[i + 1]))
         THEN UniEndFrom(text_lines, i + 1, stop)
         ELSE i

\* uni_end_idx after step 1
UniEndIdx(text_lines) ==
    LET s == UniStartIdx(text_lines)
    IN IF s = -1 THEN 0
       ELSE UniEndFrom(text_lines, s + 1, ContinuationStop(s, Len(text_lines)))

\* " ".join(uni_name_parts).strip(), or the sentinel left in place
UniversityName(text_lines) ==
    LET s == UniStartIdx(text_lines)
    IN IF s = -1 THEN Sentinel
       ELSE Strip(JoinSpace([k \in 1..(UniEndIdx(text_lines) - s) |->
                                Strip(text_lines[s + k])]))

\* the test of the holder loop
IsHolderLine(line) ==
    /\ WordCount(line) >= 2
    /\ ~Contains("course", Lower(line))
    /\ ~Contains("roll", Lower(line))
    /\ ~Contains("id", Lower(line))
    /\ ~Contains("successfully", Lower(line))

RECURSIVE HolderFrom(_, _)
\* for i in range(name_search_start, len(text_lines)): the first line that passes
HolderFrom(text_lines, i) ==
    IF i >= Len(text_lines) THEN Sentinel
    ELSE IF IsHolderLine(text_lines[i + 1]) THEN text_lines[i + 1]
    ELSE HolderFrom(text_lines, i + 1)

HolderNameFromStart(text_lines) == HolderFrom(text_lines, 0)

\* name_search_start = uni_end_idx
HolderName(text_lines) == HolderFrom(text_lines, UniEndIdx(text_lines))


\* r'(?:Roll\s*Number|Roll\s*No)\s*[:\s]*(\S+)'
RollRe ==
    << Alt(<< <<Lit("roll"), Rep("s", 0, TRUE), Lit("number")>>,
              <<Lit("roll"), Rep("s", 0, TRUE), Lit("no")>> >>),
       Rep("s", 0, TRUE), Rep("colon_s", 0, TRUE),
       Open(1), Rep("S", 1, TRUE), Close(1) >>

\* r'(?:Certificate\s*ID|Cert\s*ID|ID\s*)\s*[:\s]*(\S+)'
IdRe ==
    << Alt(<< <<Lit("certificate"), Rep("s", 0, TRUE), Lit("id")>>,
              <<Lit("cert"), Rep("s", 0, TRUE), Lit("id")>>,
              <<Lit("id"), Rep("s", 0, TRUE)>> >>),
       Rep("s", 0, TRUE), Rep("colon_s", 0, TRUE),
       Open(1), Rep("S", 1, TRUE), Close(1) >>

\* r'(?:Grade\s*[-\s:]*|with\s*Grade\s*[-\s:]*)\s*(\S)'
GradeRe ==
    << Alt(<< <<Lit("grade"), Rep("s", 0, TRUE), Rep("dash_s_colon", 0, TRUE)>>,
              <<Lit("with"), Rep("s", 0, TRUE), Lit("grade"), Rep("s", 0, TRUE),
                Rep("dash_s_colon", 0, TRUE)>> >>),
       Rep("s", 0, TRUE), Open(1), One("S"), Close(1) >>

\* r'completed the course of\s*(.*?)\s*(authorized by|with Grade)'
CourseRe ==
    << Lit("completed the course of"), Rep("s", 0, TRUE),
       Open(1), Rep("any", 0, FALSE), Close(1), Rep("s", 0, TRUE),
       Open(2), Alt(<< <<Lit("authorized by")>>, <<Lit("with grade")>> >>), Close(2) >>

\* r'(?:an\s+online\s+non-credit\s+course|a\s+non-credit\s+course)'
BoilerplateRe ==
    << Alt(<< <<Lit("an"), Rep("s", 1, TRUE), Lit("online"), Rep("s", 1, TRUE),
                Lit("non-credit"), Rep("s", 1, TRUE), Lit("course")>>,
              <<Lit("a"), Rep("s", 1, TRUE), Lit("non-credit"), Rep("s", 1, TRUE),
                Lit("course")>> >>) >>

\* r'course of\s*([A-Z0-9\s]+)'
CourseFallbackRe ==
    << Lit("course of"), Rep("s", 0, TRUE), Open(1), Rep("alnum_s", 1, TRUE), Close(1) >>

FieldOfOrEmpty(re, all_text) ==
    LET m == Search(re, all_text)
    IN IF m.ok THEN Strip(Group(m, 1, all_text)) ELSE ""

\* a field set from group 1 of a search, left alone when there is no match
FieldOf(re, all_text) ==
    LET m == Search(re, all_text)
    IN IF m.ok THEN Strip(Group(m, 1, all_text)) ELSE Sentinel

CourseOf(all_text) ==
    LET m == Search(CourseRe, all_text)
        course == IF m.ok
                  THEN Strip(RemoveAll(BoilerplateRe, Strip(Group(m, 1, all_text))))
                  ELSE Sentinel
    IN IF course = Sentinel THEN FieldOf(CourseFallbackRe, all_text) ELSE course

\* the body of the try block, on the text locator's answer
ExtractFromResults(results) ==
    LET text_lines == TextLines(results)
        all_text == AllText(results)
    IN [data |-> [f \in FieldNames |->
                    CASE f = "University Name" -> UniversityName(text_lines)
                      [] f = "Certificate Holder Name" -> HolderName(text_lines)
                      [] f = "Roll No" -> FieldOf(RollRe, all_text)
                      [] f = "Certificate ID" -> FieldOf(IdRe, all_text)
                      [] f = "Grade" -> FieldOf(GradeRe, all_text)
                      [] f = "Course" -> CourseOf(all_text)],
        uni_end_idx |-> UniEndIdx(text_lines),
        raised |-> FALSE]

\* extract_fields(image_path) of final1.py.  in: READER is set (reader), the path
\* exists (exists), READER.readtext raises (raises) or returns spans.  The
\* early return hands back extracted_data untouched; so does the handler of
\* `except Exception`, which lets nothing out of the call.
ExtractFields(in) ==
    IF ~in.reader \/ ~in.exists
    THEN [data |-> NoFields, uni_end_idx |-> 0, raised |-> FALSE]
    ELSE IF in.raises
    THEN [data |-> NoFields, uni_end_idx |-> 0, raised |-> FALSE]
    ELSE ExtractFromResults(in.spans)

(***************************************************************************)
(* ocr_service.extract_fields: the placeholder body the upload endpoint    *)
(* runs.  It reads neither READER nor the path.                            *)
(***************************************************************************)
ServiceExtractFields(in) ==
    [f \in FieldNames |->
        CASE f = "University Name" -> "Jharkhand University of Technology"
          [] f = "Certificate Holder Name" -> "Alok Kumar Sharma"
          [] f = "Course" -> "Certified Web Developer"
          [] f = "Grade" -> "A+"
          [] f = "Roll No" -> "JUT2024-54321"
          [] f = "Certificate ID" -> "PV-JKH-87234"]

(***************************************************************************)
(* Calls of extract_fields on bounded inputs.                              *)
(***************************************************************************)
MaxSpans == 4

\* texts the text locator may return for one span
Vocabulary ==
    { "  ",
      "XYZ University",
      "of Technology",
      "John Doe",
      "School of Arts",
      "completed the course of AI with Grade B" }

\* the span texts of the spec's scenario
Scenario ==
    << "XYZ University of Technology",
       "presents this certificate to",
       "John Doe",
       "for successfully completed the course of Machine Learning authorized by XYZ with Grade A",
       "Roll Number: 12345",
       "Certificate ID: CERT-99" >>

SpanSeqs == UNION {[1..n -> Vocabulary] : n \in 0..MaxSpans} \cup {Scenario}

OcrInputs ==
    {[reader |-> c[1], exists |-> c[2], raises |-> c[3], spans |-> sp] :
        c \in {<<TRUE, TRUE, FALSE>>, <<TRUE, TRUE, TRUE>>, <<FALSE, TRUE, FALSE>>,
               <<TRUE, FALSE, FALSE>>, <<FALSE, FALSE, FALSE>>},
        sp \in SpanSeqs}

OcrIdle == [by |-> "none", data |-> NoFields, uni_end_idx |-> 0, raised |-> FALSE]

\* no extract_fields call is made
OcrQuiet ==
    /\ ocrIn = [reader |-> FALSE, exists |-> FALSE, raises |-> FALSE, spans |-> <<>>]
    /\ ocrOut = OcrIdle

\* no upload is in progress and static/ is empty
ReqQuiet ==
    /\ fs = <<>>
    /\ heatmapDir = FALSE
    /\ reference = [status |-> "missing", shape |-> <<0, 0>>]
    /\ req = <<>>
    /\ touched = <<>>

InitExtract ==
    /\ ocrIn \in OcrInputs
    /\ ocrOut = OcrIdle
    /\ ReqQuiet
    /\ CsvQuiet
    /\ NormQuiet

\* final1.extract_fields(image_path) returns
ExtractFieldsFinal1 ==
    /\ ocrOut.by = "none"
    /\ LET r == ExtractFields(ocrIn)
       IN ocrOut' = [by |-> "final1", data |-> r.data,
                     uni_end_idx |-> r.uni_end_idx, raised |-> r.raised]
    /\ UNCHANGED <<ocrIn, reqVars, csvVars, normVars>>

\* ocr_service.extract_fields(image_path) returns
ExtractFieldsService ==
    /\ ocrOut.by = "none"
    /\ ocrOut' = [by |-> "ocr_service",
                  data |-> ServiceExtractFields(ocrIn),
                  uni_end_idx |-> 0,
                  raised |-> FALSE]
    /\ UNCHANGED <<ocrIn, reqVars, csvVars, normVars>>

NextExtract == ExtractFieldsFinal1 \/ ExtractFieldsService

SpecExtract == InitExtract /\ [][NextExtract]_vars

(***************************************************************************)
(* Claims about extract_fields, under SpecExtract.                         *)
(***************************************************************************)
\* final1.extract_fields ran with READER set, the path present and the text
\* locator answering
Final1Ran ==
    /\ ocrOut.by = "final1"
    /\ ocrIn.reader /\ ocrIn.exists /\ ~ocrIn.raises

\* C1: for the scenario's six text spans extract_fields returns University Name
\* "XYZ University of Technology", Certificate Holder Name "John Doe", Course
\* "Machine Learning", Grade "A", Roll No "12345", Certificate ID "CERT-99".
C1_ScenarioRecord ==
    (Final1Ran /\ ocrIn.spans = Scenario) =>
        /\ ocrOut.data["University Name"] = "XYZ University of Technology"
        /\ ocrOut.data["Certificate Holder Name"] = "John Doe"
        /\ ocrOut.data["Course"] = "Machine Learning"
        /\ ocrOut.data["Grade"] = "A"
        /\ ocrOut.data["Roll No"] = "12345"
        /\ ocrOut.data["Certificate ID"] = "CERT-99"

\* C4: with READER unset or the image path absent, extract_fields (the one of
\* final1.py and the one process_certificate calls) returns all six fields equal
\* to the sentinel and raises nothing.
C4_AllSentinelWhenUnavailable ==
    (ocrOut.by # "none" /\ (~ocrIn.reader \/ ~ocrIn.exists)) =>
        /\ \A f \in FieldNames : ocrOut.data[f] = "N/A"
        /\ ~ocrOut.raised

IsBlank(t) == \A i \in 1..Len(t) : Char(t, i) \in WhiteSpace

\* C7: given no text span, or spans whose texts are all blank, extract_fields
\* returns all six fields equal to the sentinel and no exception leaves the call.
C7_EmptySpansAllSentinel ==
    (Final1Ran /\ \A i \in 1..Len(ocrIn.spans) : IsBlank(ocrIn.spans[i])) =>
        /\ \A f \in FieldNames : ocrOut.data[f] = "N/A"
        /\ ~ocrOut.raised

\* the call returned on an empty span sequence
C7_Witness == Final1Ran /\ ocrIn.spans = <<>>

\* the lines the scan runs over, and the claim's own reading of the two tests
ScanLines == TextLines(ocrIn.spans)
KeywordLine(i) ==
    \E w \in {"Institute", "University", "Technology"} : Contains(w, ScanLines[i])
EligibleLine(i) ==
    /\ i <= Len(ScanLines)
    /\ WordCount(ScanLines[i]) <= 4
    /\ \E w \in {"of", "technology"} : Contains(w, Lower(ScanLines[i]))
\* the first keyword line, counted from 1, and the length of the run after it
FirstKeywordLine == SetMin({i \in 1..Len(ScanLines) : KeywordLine(i)})
RunAfter(s) == SetMax({c \in 0..2 : \A j \in 1..c : EligibleLine(s + j)})

\* C10: University Name is the first keyword line s joined by spaces with the
\* longest run, of at most 2, of eligible lines right after it; the resume point is
\* s + 1 + the run's length (s counted from 0), at most s + 3 and at most the
\* number of lines; with no keyword line University Name stays the sentinel.
C10_InstitutionScan ==
    Final1Ran =>
        IF \A i \in 1..Len(ScanLines) : ~KeywordLine(i)
        THEN ocrOut.data["University Name"] = "N/A"
        ELSE LET s == FirstKeywordLine
                 c == RunAfter(s)
             IN /\ ocrOut.data["University Name"] = JoinSpace(SubSeq(ScanLines, s, s + c))
                /\ ocrOut.uni_end_idx = (s - 1) + 1 + c
                /\ ocrOut.uni_end_idx <= (s - 1) + 3
                /\ ocrOut.uni_end_idx <= Len(ScanLines)

\* two continuation lines were taken and a third eligible line follows them
C10_Witness ==
    /\ Final1Ran
    /\ \E i \in 1..Len(ScanLines) : KeywordLine(i)
    /\ RunAfter(FirstKeywordLine) = 2
    /\ EligibleLine(FirstKeywordLine + 3)
    /\ ocrOut.uni_end_idx = FirstKeywordLine + 2

(***************************************************************************)
(* Calls of final1.extract_fields on lines that exercise the holder scan:  *)
(* one-word lines, lines with each exclusion keyword (in other letter case *)
(* and inside a longer word), and lines the institution scan consumes.     *)
(***************************************************************************)
MaxHolderSpans == 3

HolderVocabulary ==
    { "Jane",
      "John Doe",
      "XYZ University",
      "of Technology",
      "Roll No 7",
      "Candidate Name",
      "Successfully Passed",
      "The COURSE list" }

HolderSpanSeqs == UNION {[1..n -> HolderVocabulary] : n \in 0..MaxHolderSpans}

HolderInputs ==
    {[reader |-> c[1], exists |-> c[2], raises |-> c[3], spans |-> sp] :
        c \in {<<TRUE, TRUE, FALSE>>, <<TRUE, TRUE, TRUE>>, <<FALSE, TRUE, FALSE>>,
               <<TRUE, FALSE, FALSE>>},
        sp \in HolderSpanSeqs}

InitHolder ==
    /\ ocrIn \in HolderInputs
    /\ ocrOut = OcrIdle
    /\ ReqQuiet
    /\ CsvQuiet
    /\ NormQuiet

SpecHolder == InitHolder /\ [][NextExtract]_vars

\* the claim's own reading of the holder test, on line i counted from 1
ExclusionKeywords == {"course", "roll", "id", "successfully"}
HolderCandidate(i) ==
    /\ WordCount(ScanLines[i]) >= 2
    /\ \A w \in ExclusionKeywords : ~Contains(w, Lower(ScanLines[i]))
\* the institution resume point, counted from 0: 0 when no line has a keyword
ResumePoint ==
    IF \A i \in 1..Len(ScanLines) : ~KeywordLine(i) THEN 0
    ELSE FirstKeywordLine + RunAfter(FirstKeywordLine)
\* the lines at or after the resume point that pass the holder test
HolderCandidates == {i \in (ResumePoint + 1)..Len(ScanLines) : HolderCandidate(i)}

PlaceholderShape == <<200, 300>>

NoImage == [kind |-> "none", shape |-> <<0, 0>>]

ResizeSwapped(shape, dsize) == <<dsize[1], dsize[2]>>

\* cv2.resize(test, dsize): dsize is (columns, rows), the result has that size
Resize(shape, dsize) == <<dsize[2], dsize[1]>>

\* lines 59-87: test after the resize, and with it heatmap_on_image, whose shape
\* cv2.addWeighted takes from test (it raises when test and heatmap differ)
OverlayShape(ref_shape, test_shape) ==
    IF ref_shape # test_shape
    THEN Resize(test_shape, <<ref_shape[2], ref_shape[1]>>)
    ELSE test_shape

\* generate_ssim_heatmap(reference_path, test_path, output_path).
\*   ref: [status: "missing" | "undecodable" | "image", shape]
\*                                               (the file at reference_path)
\*   test: [decodes, shape]                      (the file at test_path)
\*   fault: "none" | "imsave" (plt.imsave raises) | "processing" (a call inside
\*          the try block raises)
\* Answers the value returned, whether an exception left the call, and the image
\* written at output_path.  savefig draws heatmap_on_image into a 10 x 8 inch
\* figure at 100 dpi; `shape` is that of heatmap_on_image.
GenerateSsimHeatmap(ref, test, fault) ==
    IF ref.status = "missing"
    THEN IF fault = "imsave"
         THEN [ret |-> FALSE, raised |-> TRUE, out |-> NoImage]
         ELSE [ret |-> FALSE, raised |-> FALSE,
               out |-> [kind |-> "placeholder", shape |-> PlaceholderShape]]
    ELSE IF ref.status = "undecodable" \/ ~test.decodes
    THEN [ret |-> FALSE, raised |-> FALSE, out |-> NoImage]
    ELSE IF fault = "processing" \/ OverlayShape(ref.shape, test.shape) # ref.shape
    THEN [ret |-> FALSE, raised |-> FALSE, out |-> NoImage]
    ELSE [ret |-> TRUE, raised |-> FALSE,
          out |-> [kind |-> "overlay", shape |-> OverlayShape(ref.shape, test.shape)]]

(***************************************************************************)
(* ocr_routes.verify_certificate, ocr_service.process_certificate and      *)
(* ocr_routes.get_heatmap, one action per step of a request, so that the   *)
(* requests of several workers interleave.                                 *)
(***************************************************************************)
NumRequests == 2

Requests == 1..NumRequests

\* uuid.uuid4(): the k-th draw of request r; draws are pairwise distinct
Uuid4(r, k) == 2 * (r - 1) + k

\* file.filename, chosen by the client
Filenames == {"cert.png"}

\* filename = f"{uuid.uuid4()}_{file.filename}"; file_path = f"static/{filename}"
TempPath(u, filename) == "static/" \o ToString(u) \o "_" \o filename

HeatmapPathInStatic(u) == "static/" \o ToString(u) \o "_heatmap.png"

\* os.path.join("static/heatmaps", f"{uuid.uuid4()}_heatmap.png")
HeatmapPath(u) == "static/heatmaps" \o "/" \o ToString(u) \o "_heatmap.png"

\* os.path.basename(path)
Basename(path) ==
    IF \A i \in 1..Len(path) : Char(path, i) # "/" THEN path
    ELSE SubSeq(path, SetMax({i \in 1..Len(path) : Char(path, i) = "/"}) + 1, Len(path))

\* f"/ocr/heatmap/{os.path.basename(heatmap_path)}"
HeatmapUrl(heatmap_path) == "/ocr/heatmap/" \o Basename(heatmap_path)

\* get_heatmap(filename): the file served for a URL of the route /ocr/heatmap/{filename}
ServedPath(url) == "static/heatmaps/" \o Basename(url)

\* the shapes of the reference template and of an upload of another size
RefShape == <<600, 800>>
OtherShape == <<480, 640>>

\* what a client may upload: bytes that do not decode, or an image
Uploads ==
    { [decodes |-> FALSE, shape |-> <<0, 0>>],
      [decodes |-> TRUE, shape |-> RefShape],
      [decodes |-> TRUE, shape |-> OtherShape] }

References ==
    { [status |-> "missing", shape |-> <<0, 0>>],
      [status |-> "undecodable", shape |-> <<0, 0>>],
      [status |-> "image", shape |-> RefShape] }

Faults == {"none", "imsave", "processing"}

Absent == [kind |-> "absent"]

AllPaths ==
    {TempPath(Uuid4(r, 1), fn) : r \in Requests, fn \in Filenames}
        \cup {HeatmapPath(Uuid4(r, 2)) : r \in Requests}

Exists(path) == path \in DOMAIN fs /\ fs[path] # Absent

NoTouch == [read |-> {}, written |-> {}, deleted |-> {}]

NewRequest ==
    [pc |-> "start", upload |-> [decodes |-> FALSE, shape |-> <<0, 0>>],
     file_path |-> "", heatmap_path |-> "", extracted_data |-> NoFields,
     fault |-> "none", ret |-> "none", heatmap_url |-> "", served |-> "none",
     calls |-> <<>>]

InitReq ==
    /\ fs = [p \in AllPaths |-> Absent]
    /\ heatmapDir \in BOOLEAN
    /\ reference \in References
    /\ req = [r \in Requests |-> NewRequest]
    /\ touched = [r \in Requests |-> NoTouch]
    /\ OcrQuiet
    /\ CsvQuiet
    /\ NormQuiet

\* verify_certificate, lines 11-16: the upload is written to its temporary file
Upload(r) ==
    /\ req[r].pc = "start"
    /\ \E fn \in Filenames, up \in Uploads :
          LET file_path == TempPath(Uuid4(r, 1), fn)
          IN /\ fs' = [fs EXCEPT ![file_path] =
                          [kind |-> "upload", by |-> r, image |-> up]]
             /\ req' = [req EXCEPT ![r].pc = "uploaded", ![r].upload = up,
                                   ![r].file_path = file_path,
                                   ![r].calls = Append(@, <<"open_wb", file_path>>)]
             /\ touched' = [touched EXCEPT ![r].written = @ \cup {file_path}]
    /\ UNCHANGED <<heatmapDir, reference, ocrVars, csvVars, normVars>>

\* process_certificate, line 141: extract_fields(file_path), the placeholder body
ExtractStep(r) ==
    /\ req[r].pc = "uploaded"
    /\ req' = [req EXCEPT ![r].pc = "extracted",
                          ![r].extracted_data =
                              ServiceExtractFields([path |-> req[r].file_path]),
                          ![r].calls = Append(@, <<"extract_fields", req[r].file_path>>)]
    /\ UNCHANGED <<fs, heatmapDir, reference, touched, ocrVars, csvVars, normVars>>

\* process_certificate, lines 144-146: os.makedirs creates the directory and the
\* overlay's path is drawn
MakeDirs(r) ==
    /\ req[r].pc = "extracted"
    /\ heatmapDir' = TRUE
    /\ req' = [req EXCEPT ![r].pc = "dir_ready",
                          ![r].heatmap_path = HeatmapPath(Uuid4(r, 2)),
                          ![r].calls = Append(@, <<"makedirs", "static/heatmaps">>)]
    /\ UNCHANGED <<fs, reference, touched, ocrVars, csvVars, normVars>>

\* process_certificate, line 144: os.makedirs raises OSError (static/heatmaps is
\* a file, or may not be created); the exception leaves process_certificate and
\* verify_certificate
MakeDirsRaises(r) ==
    /\ req[r].pc = "extracted"
    /\ ~heatmapDir
    /\ req' = [req EXCEPT ![r].pc = "failed"]
    /\ UNCHANGED <<fs, heatmapDir, reference, touched, ocrVars, csvVars, normVars>>

\* the calls of line 149 on the two paths, in order: generate_ssim_heatmap is
\* handed output_path, cv2.imread(test_path) runs once the reference is found
\* (line 52), and plt.imsave (line 47) or plt.savefig (line 96) writes
HeatmapCalls(test_path, output_path, written) ==
    <<<<"generate_ssim_heatmap", output_path>>>>
        \o (IF reference.status = "missing" THEN <<>>
            ELSE <<<<"imread", test_path>>>>)
        \o (IF written = "placeholder" THEN <<<<"imsave", output_path>>>>
            ELSE IF written = "overlay" THEN <<<<"savefig", output_path>>>>
            ELSE <<>>)

\* process_certificate, line 149: generate_ssim_heatmap(REFERENCE_IMAGE_PATH,
\* file_path, heatmap_path)
Heatmap(r) ==
    /\ req[r].pc = "dir_ready"
    /\ \E fault \in Faults :
          LET test == IF Exists(req[r].file_path) THEN fs[req[r].file_path].image
                      ELSE [decodes |-> FALSE, shape |-> <<0, 0>>]
              g == GenerateSsimHeatmap(reference, test, fault)
          IN /\ fs' = IF g.out.kind = "none" THEN fs
                      ELSE [fs EXCEPT ![req[r].heatmap_path] =
                              [kind |-> g.out.kind, by |-> r, shape |-> g.out.shape]]
             /\ req' = [req EXCEPT ![r].pc = IF g.raised THEN "failed" ELSE "heatmap_done",
                                   ![r].fault = fault, ![r].ret = g.ret,
                                   ![r].calls = @ \o HeatmapCalls(req[r].file_path,
                                                       req[r].heatmap_path, g.out.kind)]
             /\ touched' = [touched EXCEPT
                   ![r].read = IF reference.status = "missing" THEN @
                               ELSE @ \cup {req[r].file_path},
                   ![r].written = IF g.out.kind = "none" THEN @
                                  ELSE @ \cup {req[r].heatmap_path}]
    /\ UNCHANGED <<heatmapDir, reference, ocrVars, csvVars, normVars>>

\* process_certificate, lines 153-155: the temporary file is removed
Cleanup(r) ==
    /\ req[r].pc = "heatmap_done"
    /\ IF Exists(req[r].file_path)
       THEN /\ fs' = [fs EXCEPT ![req[r].file_path] = Absent]
            /\ touched' = [touched EXCEPT ![r].deleted = @ \cup {req[r].file_path}]
       ELSE UNCHANGED <<fs, touched>>
    /\ req' = [req EXCEPT ![r].pc = "cleaned",
                          ![r].calls = @ \o <<<<"exists", req[r].file_path>>>>
                              \o (IF Exists(req[r].file_path)
                                  THEN <<<<"remove", req[r].file_path>>>> ELSE <<>>)]
    /\ UNCHANGED <<heatmapDir, reference, ocrVars, csvVars, normVars>>

\* process_certificate, line 157, and verify_certificate, lines 21-25: the response
Return(r) ==
    /\ req[r].pc = "cleaned"
    /\ req' = [req EXCEPT ![r].pc = "returned",
                          ![r].heatmap_url = HeatmapUrl(req[r].heatmap_path),
                          ![r].calls = Append(@, <<"return", req[r].heatmap_path>>)]
    /\ UNCHANGED <<fs, heatmapDir, reference, touched, ocrVars, csvVars, normVars>>

\* get_heatmap(filename), for the URL a response gave: FileResponse of a file
\* that is not there ends in an error
GetHeatmap(r) ==
    /\ req[r].pc = "returned"
    /\ req[r].served = "none"
    /\ LET path == ServedPath(req[r].heatmap_url)
       IN /\ req' = [req EXCEPT ![r].served = IF Exists(path) THEN "image" ELSE "error",
                                ![r].calls = Append(@, <<"FileResponse", path>>)]
          /\ touched' = [touched EXCEPT ![r].read = @ \cup {path}]
    /\ UNCHANGED <<fs, heatmapDir, reference, ocrVars, csvVars, normVars>>

NextReq ==
    \E r \in Requests :
        \/ Upload(r)
        \/ ExtractStep(r)
        \/ MakeDirs(r)
        \/ MakeDirsRaises(r)
        \/ Heatmap(r)
        \/ Cleanup(r)
        \/ Return(r)
        \/ GetHeatmap(r)

SpecReq == InitReq /\ [][NextReq]_vars

(***************************************************************************)
(* Claims about the verify requests, under SpecReq.                        *)
(***************************************************************************)
\* the request has ended: its response was sent, or an exception left the handler
Ended(r) == req[r].pc \in {"returned", "failed"}

\* C2: a request that has written its temporary file has deleted it once the
\* request has ended, on every exit path, also when directory creation, placeholder
\* writing or heatmap generation fails or raises.
C2_TempDeletedOnEveryExit ==
    \A r \in Requests :
        (Ended(r) /\ req[r].file_path \in touched[r].written)
            => ~Exists(req[r].file_path)

\* generate_ssim_heatmap has returned to process_certificate
HeatmapReturned(r) == req[r].pc \in {"heatmap_done", "cleaned", "returned"}

\* C3: whenever generate_ssim_heatmap produces no scores, a placeholder image is
\* at the output path, so after every completed request the file the heatmap_url
\* names exists and get_heatmap serves it.
C3_PlaceholderWhenNoScores ==
    \A r \in Requests :
        /\ (HeatmapReturned(r) /\ req[r].ret = FALSE) =>
              /\ Exists(req[r].heatmap_path)
              /\ fs[req[r].heatmap_path].kind = "placeholder"
        /\ req[r].pc = "returned" => Exists(ServedPath(req[r].heatmap_url))
        /\ req[r].served # "error"

\* the paths request r has drawn so far
OwnPaths(r) == {req[r].file_path, req[r].heatmap_path} \ {""}
Touched(r) == touched[r].read \cup touched[r].written \cup touched[r].deleted

\* no request reads, writes or deletes a path of another, and every file is the
\* one its owner wrote
Isolated ==
    /\ \A r1, r2 \in Requests :
          r1 # r2 => /\ OwnPaths(r1) \cap OwnPaths(r2) = {}
                     /\ Touched(r1) \cap OwnPaths(r2) = {}
    /\ \A r \in Requests : \A p \in OwnPaths(r) : Exists(p) => fs[p].by = r
    /\ \A r \in Requests : Touched(r) \subseteq OwnPaths(r)

\* C5: concurrent requests use temporary and overlay files of their own, distinct
\* and untouched by the other request, and after the requests have completed all
\* their temporary input files have been deleted.
C5_IsolatedAndCleaned ==
    /\ Isolated
    /\ (\A r \in Requests : Ended(r)) =>
          \A r \in Requests : req[r].file_path # "" => ~Exists(req[r].file_path)

\* generate_ssim_heatmap returned for a reference and a candidate that both decode,
\* with no call of it raising
HeatmapRan(r) ==
    /\ HeatmapReturned(r)
    /\ reference.status = "image"
    /\ req[r].upload.decodes
    /\ req[r].fault = "none"

OverlayWritten(r) ==
    /\ req[r].ret = TRUE
    /\ Exists(req[r].heatmap_path)
    /\ fs[req[r].heatmap_path].kind = "overlay"

CallsOf(r, op) == {i \in 1..Len(req[r].calls) : req[r].calls[i][1] = op}
IsPrefix(pre, path) == Len(pre) <= Len(path) /\ SubSeq(path, 1, Len(pre)) = pre

\* C12: within one process_certificate call, extract_fields and
\* generate_ssim_heatmap have both finished with the temporary file before it is
\* removed, nothing uses the file after its removal, and the heatmap path
\* returned is the one handed to generate_ssim_heatmap and lies under
\* static/heatmaps.
C12_StepsOrdered ==
    \A r \in Requests :
        LET calls == req[r].calls
        IN /\ \A d \in CallsOf(r, "remove") :
                 /\ \E e \in CallsOf(r, "extract_fields") : e < d
                 /\ \E g \in CallsOf(r, "generate_ssim_heatmap") : g < d
                 /\ \A i \in CallsOf(r, "imread") : i < d
                 /\ \A j \in (d + 1)..Len(calls) : calls[j][2] # calls[d][2]
                 /\ req[r].pc \in {"cleaned", "returned"}
           /\ \A t \in CallsOf(r, "return") :
                 /\ \E g \in CallsOf(r, "generate_ssim_heatmap") :
                       g < t /\ calls[g][2] = calls[t][2]
                 /\ IsPrefix("static/heatmaps/", calls[t][2])

\* a request whose upload was read by cv2.imread, then removed, and that has
\* returned its heatmap path and had it served
C12_Witness ==
    \E r \in Requests :
        /\ CallsOf(r, "imread") # {}
        /\ CallsOf(r, "remove") # {}
        /\ CallsOf(r, "return") # {}
        /\ CallsOf(r, "FileResponse") # {}

(***************************************************************************)
(* final1.save_to_csv, one action per step of a call, so that the calls of *)
(* several processes on one output_filename interleave.  The csv writer    *)
(* writes into the file object's buffer; the buffer reaches the file, at   *)
(* its end (mode 'a'), when the with block closes it.                      *)
(***************************************************************************)
NumSavers == 2
MaxRecords == 2

Savers == 1..NumSavers

Header == "header"

\* the data_list of a caller: up to MaxRecords records, each named by its caller
\* and its place in the list
DataLists(p) == {[k \in 1..n |-> <<p, k>>] : n \in 0..MaxRecords}

SaverIdle == [pc |-> "idle", data_list |-> <<>>, file_exists |-> FALSE]

InitCsv ==
    /\ csvFile = [exists |-> FALSE, rows |-> <<>>]
    /\ saver = [p \in Savers |-> SaverIdle]
    /\ saved = <<>>
    /\ OcrQuiet
    /\ ReqQuiet
    /\ NormQuiet

\* lines 218-220: `if not data_list: return`
SaveNothing(p) ==
    /\ saver[p].pc = "idle"
    /\ saver' = [saver EXCEPT ![p].pc = "done"]
    /\ UNCHANGED <<csvFile, saved, ocrVars, reqVars, normVars>>

\* lines 223-226: file_exists = os.path.exists(output_filename)
CheckExists(p) ==
    /\ saver[p].pc = "idle"
    /\ \E d \in DataLists(p) \ {<<>>} :
          saver' = [saver EXCEPT ![p] = [pc |-> "checked", data_list |-> d,
                                         file_exists |-> csvFile.exists]]
    /\ UNCHANGED <<csvFile, saved, ocrVars, reqVars, normVars>>

\* line 230: open(output_filename, 'a') creates the file when it is absent
OpenAppend(p) ==
    /\ saver[p].pc = "checked"
    /\ csvFile' = [csvFile EXCEPT !.exists = TRUE]
    /\ saver' = [saver EXCEPT ![p].pc = "open"]
    /\ UNCHANGED <<saved, ocrVars, reqVars, normVars>>

\* lines 231-238: the header, if file_exists was False, then the data rows
RowsWritten(file_exists, data_list) ==
    (IF ~file_exists THEN <<Header>> ELSE <<>>) \o data_list

\* lines 231-240: the rows are written and the with block closes the file
WriteAndClose(p) ==
    /\ saver[p].pc = "open"
    /\ csvFile' = [csvFile EXCEPT
                      !.rows = @ \o RowsWritten(saver[p].file_exists, saver[p].data_list)]
    /\ saved' = saved \o saver[p].data_list
    /\ saver' = [saver EXCEPT ![p].pc = "done"]
    /\ UNCHANGED <<ocrVars, reqVars, normVars>>

NextCsv ==
    \E p \in Savers :
        \/ SaveNothing(p)
        \/ CheckExists(p)
        \/ OpenAppend(p)
        \/ WriteAndClose(p)

SpecCsv == InitCsv /\ [][NextCsv]_vars

\* C6: for any sequence or interleaving of save_to_csv calls with non-empty data
\* on one file, the header is written only by a call that finds the file absent
\* when it writes, so the file holds exactly one header row, as its first row,
\* followed by one row per saved record.
C6_OneHeaderFirst ==
    csvFile.rows # <<>> =>
        /\ csvFile.rows[1] = Header
        /\ \A i \in 2..Len(csvFile.rows) : csvFile.rows[i] # Header
        /\ SubSeq(csvFile.rows, 2, Len(csvFile.rows)) = saved

(***************************************************************************)
(* generate_ssim_heatmap, the normalisation and inversion of the raw       *)
(* similarity field (ocr_service.py lines 74-77, final1.py lines 65-68).   *)
(* A raw value v stands for v / 2, so the field ranges over -1 .. 1; the   *)
(* quotients are kept exact, as numerator and denominator.  numpy divides  *)
(* 0.0 by 0.0 to nan, with a warning and no exception.                     *)
(***************************************************************************)
MaxPixels == 3

RawValues == (-2)..2

\* what ssim(..., full=True) may return as its map, flattened
RawFields == UNION {[1..n -> RawValues] : n \in 1..MaxPixels}

NaN == [nan |-> TRUE, num |-> 0, den |-> 1]

\* a / b on float64 arrays, element by element, for a >= 0 and b >= 0
Divide(a, b) ==
    IF b = 0 THEN NaN ELSE [nan |-> FALSE, num |-> a, den |-> b]

\* 1 - x; nan stays nan
OneMinus(x) ==
    IF x.nan THEN NaN ELSE [nan |-> FALSE, num |-> x.den - x.num, den |-> x.den]

FieldMin(f) == SetMin({f[i] : i \in 1..Len(f)})
FieldMax(f) == SetMax({f[i] : i \in 1..Len(f)})

\* ssim_map = (ssim_map - np.min(ssim_map)) / (np.max(ssim_map) - np.min(ssim_map))
Normalize(f) ==
    [i \in 1..Len(f) |-> Divide(f[i] - FieldMin(f), FieldMax(f) - FieldMin(f))]

\* ssim_map_inverted = 1 - ssim_map
NormalizeInvert(f) == [i \in 1..Len(f) |-> OneMinus(Normalize(f)[i])]

\* identical images give the raw value 1.0 everywhere
IdenticalField(n) == [i \in 1..n |-> 2]

InitNorm ==
    /\ ssimIn \in {[identical |-> FALSE, ssim_map |-> f] : f \in RawFields}
                    \cup {[identical |-> TRUE, ssim_map |-> IdenticalField(n)] :
                            n \in 1..MaxPixels}
    /\ surface = [by |-> "none", inverted |-> <<>>]
    /\ OcrQuiet
    /\ ReqQuiet
    /\ CsvQuiet

\* ocr_service.generate_ssim_heatmap, lines 74-77
NormalizeService ==
    /\ surface.by = "none"
    /\ surface' = [by |-> "ocr_service", inverted |-> NormalizeInvert(ssimIn.ssim_map)]
    /\ UNCHANGED <<ssimIn, ocrVars, reqVars, csvVars>>

\* final1.generate_ssim_heatmap, lines 65-68
NormalizeFinal1 ==
    /\ surface.by = "none"
    /\ surface' = [by |-> "final1", inverted |-> NormalizeInvert(ssimIn.ssim_map)]
    /\ UNCHANGED <<ssimIn, ocrVars, reqVars, csvVars>>

NextNorm == NormalizeService \/ NormalizeFinal1

SpecNorm == InitNorm /\ [][NextNorm]_vars

\* C8: the normalised and inverted surface has every value in [0,1] and reverses
\* the order of the raw field, component by component; for identical images,
\* where the raw field is constant, it is 0 everywhere (no division by zero).
C8_SurfaceInUnitRange ==
    surface.by # "none" =>
        LET raw == ssimIn.ssim_map
            inv == surface.inverted
        IN /\ \A i \in 1..Len(raw) :
                 ~inv[i].nan /\ 0 <= inv[i].num /\ inv[i].num <= inv[i].den
           /\ \A i, j \in 1..Len(raw) :
                 raw[i] <= raw[j] =>
                    inv[i].num * inv[j].den >= inv[j].num * inv[i].den
           /\ (\A i, j \in 1..Len(raw) : raw[i] = raw[j]) =>
                 \A i \in 1..Len(raw) : ~inv[i].nan /\ inv[i].num = 0

====
